---- MODULE Spec2Model ----
(***************************************************************************)
(* Model of pkg/job/abstract.go: ScrapeAwsData and the three scrape units  *)
(* (scrapeDiscoveryJobUsingMetricData, scrapeStaticJob,                    *)
(* scrapeCustomNamespaceJobUsingMetricData).                               *)
(*                                                                         *)
(* One goroutine per (job, role, region) triple; every unit spawns one     *)
(* goroutine per batch (or per static metric).  External calls are         *)
(* modelled as an "in flight" position of the calling goroutine followed   *)
(* by a return step that draws the response from a bounded set.            *)
(***************************************************************************)
EXTENDS Naturals, Integers, Sequences, FiniteSets, Bags, TLC

\* ---------------------------------------------------------------- bounds
MaxTriples == 2
MaxMetrics == 2
MaxBatch == 2
MaxCap == 2
MaxResources == 1
\* environment of the orchestration runs (Spec)
MaxNew == 1
MaxId == 1
MaxResults == 1
\* environment of the single-unit runs (SpecMerge)
MergeNew == 2
MergeId == 2
MergeResults == 2
\* the partition loop alone (SpecPart)
MaxN == 9
MaxDefault == 3
JoinNew == 3
MaxLength == 3
MaxM == 4

T == 1..MaxTriples
Kinds == {"D", "S", "C"}

VARIABLES
    kind,                \* configuration: kind of every configured triple
    nTriples,            \* configuration: number of triples
    nMetrics,            \* configuration: metric definitions of the triple's job
    metricsPerQuery,     \* parameter of ScrapeAwsData
    cloudwatchCap,       \* cap(cloudwatchSemaphore)
    tagCap,              \* cap(tagSemaphore)
    mainPc,              \* position of ScrapeAwsData itself
    spawned,             \* triples whose goroutine has been started
    wgMain,              \* ScrapeAwsData's sync.WaitGroup counter
    refreshCount,        \* calls of cache.Refresh()
    clearCount,          \* calls of cache.Clear()
    cloudwatchSemaphore, \* len(cloudwatchSemaphore)
    tagSemaphore,        \* len(tagSemaphore)
    mux,                 \* holder of ScrapeAwsData's mutex, 0 when free
    awsInfoData,         \* aggregate resource collection (bag)
    cwData,              \* aggregate query collection (bag)
    pc,                  \* position of every triple goroutine
    resources,           \* number of resources clientTag.Get returned
    metricIdx,           \* index of the catalog loop
    getMetricDatas,      \* the unit's query list: sequence of MetricIDs
    wg,                  \* the unit's sync.WaitGroup counter
    workers,             \* position of every worker goroutine of the unit
    cw,                  \* the unit's contribution (bag)
    batchResp,           \* history: response every worker received
    calls,               \* history: external calls issued per triple and class
    env,                 \* ranges the external collaborators answer from
    account,             \* outcome of GetCallerIdentity per triple
    part,                \* the partition loop run alone (SpecPart)
    held,                \* history: permits every goroutine holds, per gate
    lenRun               \* getMetricDataInputLength run alone (SpecLen)

vars == <<kind, nTriples, nMetrics, metricsPerQuery, cloudwatchCap, tagCap,
          mainPc, spawned, wgMain, refreshCount, clearCount,
          cloudwatchSemaphore, tagSemaphore, mux, awsInfoData, cwData,
          pc, resources, metricIdx, getMetricDatas, wg, workers, cw,
          batchResp, calls, env, account, part, held, lenRun>>

\* what no step of a scrape changes
cfgVars == <<kind, nTriples, nMetrics, metricsPerQuery, cloudwatchCap, tagCap, env,
            part, lenRun>>

\* ------------------------------------------------------- pure operators

PartitionPlusOne(n, m) == n \div m + 1

\* math.Ceil(float64(n) / float64(m)) for the small positive integers used
Partition(n, m) == (n + m - 1) \div m

\* the values i takes in "for i := 0; i < metricDataLength; i += maxMetricCount"
WorkerStarts(n, m) == {i \in 0..(n - 1) : i % m = 0}

SliceEndUnclamped(i, n, m) == i + m

\* end := i + maxMetricCount; if end > metricDataLength { end = metricDataLength }
SliceEnd(i, n, m) == IF i + m > n THEN n ELSE i + m

\* input := getMetricDatas[i:end], as the set of 1-based positions
SliceIdx(i, n, m) == (i + 1)..SliceEnd(i, n, m)

\* findGetMetricDataById(input, id): position of the first query of the slice
\* whose MetricID is id, 0 when there is none (the error return)
FindGetMetricDataById(ids, idx, id) ==
    IF \E k \in idx : ids[k] = id
    THEN CHOOSE k \in idx : ids[k] = id /\ \A j \in idx : ids[j] = id => k <= j
    ELSE 0

MergedRecordLast(t, k, r) ==
    [triple |-> t, q |-> k,
     set |-> Len(r.Values) # 0,
     point |-> IF Len(r.Values) # 0 THEN r.Values[Len(r.Values)] ELSE 0,
     ts |-> IF Len(r.Values) # 0 THEN r.Timestamps[Len(r.Timestamps)] ELSE 0]

\* the record a worker appends to output for result r
MergedRecord(t, k, r) ==
    [triple |-> t, q |-> k,
     set |-> Len(r.Values) # 0,
     point |-> IF Len(r.Values) # 0 THEN r.Values[1] ELSE 0,
     ts |-> IF Len(r.Values) # 0 THEN r.Timestamps[1] ELSE 0]

\* the loop over data.MetricDataResults: the output slice as a bag
RECURSIVE MergeOutput(_, _, _, _, _)
MergeOutput(t, ids, idx, results, n) ==
    IF n = 0 THEN EmptyBag
    ELSE LET k == FindGetMetricDataById(ids, idx, results[n].Id)
             rest == MergeOutput(t, ids, idx, results, n - 1)
         IN IF k # 0 THEN rest (+) SetToBag({MergedRecord(t, k, results[n])})
            ELSE rest

\* ------------------------------------------------- external responses
\* env.maxId: rand.Int() and the ids of a response range over 1..env.maxId;
\* env.foreign: a response may also carry the id env.maxId + 1, which no query has;
\* env.maxResults: longest MetricDataResults; env.maxNew: most queries one
\* catalog call generates
ResultData == {[Values |-> <<>>, Timestamps |-> <<>>],
               [Values |-> <<2, 1>>, Timestamps |-> <<20, 10>>]}
Results == {[Id |-> i, Values |-> d.Values, Timestamps |-> d.Timestamps] :
               i \in 1..(env.maxId + env.foreign), d \in ResultData}
NilResp == [nil |-> TRUE, results |-> <<>>]
Responses == {NilResp} \cup
             {[nil |-> FALSE, results |-> s] :
                 s \in UNION {[1..n -> Results] : n \in 0..env.maxResults}}
NewIds == UNION {[1..n -> 1..env.maxId] : n \in 0..env.maxNew}
NoCalls == [sts |-> 0, tag |-> 0, catalog |-> 0, data |-> 0]

\* ------------------------------------------------------------- initial
KindRank(k) == CASE k = "D" -> 1 [] k = "S" -> 2 [] k = "C" -> 3 [] OTHER -> 4

\* cfg.Discovery.Jobs are spawned first, then cfg.Static, then cfg.CustomNamespace
Start ==
    /\ mainPc = "start"
    /\ spawned = 0
    /\ wgMain = 0
    /\ refreshCount = 0
    /\ clearCount = 0
    /\ cloudwatchSemaphore = 0
    /\ tagSemaphore = 0
    /\ mux = 0
    /\ awsInfoData = EmptyBag
    /\ cwData = EmptyBag
    /\ pc = [t \in T |-> "unspawned"]
    /\ resources = [t \in T |-> 0]
    /\ metricIdx = [t \in T |-> 0]
    /\ getMetricDatas = [t \in T |-> <<>>]
    /\ wg = [t \in T |-> 0]
    /\ workers = [t \in T |-> <<>>]
    /\ cw = [t \in T |-> EmptyBag]
    /\ batchResp = [t \in T |-> <<>>]
    /\ calls = [t \in T |-> NoCalls]
    /\ account = [t \in T |-> "none"]
    /\ held = [tag |-> [t \in T |-> 0],
               data |-> [t \in T |-> [i \in 0..(MaxMetrics * (MaxNew + MergeNew)) |-> 0]]]

NoLen == [default |-> 1, job |-> 0, metrics |-> <<>>, j |-> 0, length |-> 0,
          started |-> FALSE, returned |-> FALSE]

NoPart == [n |-> 0, m |-> 1, i |-> 0, partition |-> 0, slices |-> <<>>]

Init ==
    /\ nTriples \in 0..MaxTriples
    /\ kind \in [T -> Kinds \cup {"-"}]
    /\ \A t \in T : (t > nTriples) <=> (kind[t] = "-")
    /\ \A t, u \in T : t < u => KindRank(kind[t]) <= KindRank(kind[u])
    /\ nMetrics \in [T -> 1..MaxMetrics]
    /\ \A t \in T : t > nTriples => nMetrics[t] = 1
    /\ metricsPerQuery \in 1..MaxBatch
    /\ cloudwatchCap \in 1..MaxCap
    /\ tagCap \in 1..MaxCap
    /\ env = [maxId |-> MaxId, foreign |-> 0, maxResults |-> MaxResults,
              maxNew |-> MaxNew]
    /\ part = NoPart
    /\ lenRun = NoLen
    /\ Start

\* one unit alone, with responses that repeat ids and carry unknown ids
InitMerge ==
    /\ nTriples = 1
    /\ kind \in [T -> Kinds \cup {"-"}]
    /\ \A t \in T : (t > nTriples) <=> (kind[t] = "-")
    /\ nMetrics = [t \in T |-> 1]
    /\ metricsPerQuery \in 1..MaxBatch
    /\ cloudwatchCap = 1
    /\ tagCap = 1
    /\ env = [maxId |-> MergeId, foreign |-> 1, maxResults |-> MergeResults,
              maxNew |-> MergeNew]
    /\ part = NoPart
    /\ lenRun = NoLen
    /\ Start

\* ------------------------------------------------------- ScrapeAwsData
\* the two gates and the permits held of them
gateVars == <<cloudwatchSemaphore, tagSemaphore, held>>
aggVars == <<awsInfoData, cwData, mux>>
unitVars == <<resources, metricIdx, getMetricDatas, wg, workers, cw, batchResp>>
cacheVars == <<refreshCount, clearCount>>

Count(t, class) == [calls EXCEPT ![t][class] = @ + 1]

\* cache.Refresh()
MainRefresh ==
    /\ mainPc = "start"
    /\ refreshCount' = refreshCount + 1
    /\ mainPc' = "spawn"
    /\ UNCHANGED <<cfgVars, account, spawned, wgMain, clearCount, gateVars, aggVars, pc,
                   unitVars, calls>>

\* wg.Add(1); go func(...) {...}: the goroutine starts with GetCallerIdentity
MainSpawn ==
    /\ mainPc = "spawn"
    /\ spawned < nTriples
    /\ spawned' = spawned + 1
    /\ wgMain' = wgMain + 1
    /\ pc' = [pc EXCEPT ![spawned + 1] = "sts"]
    /\ calls' = Count(spawned + 1, "sts")
    /\ UNCHANGED <<cfgVars, account, mainPc, cacheVars, gateVars, aggVars, unitVars>>

WaitDoneAtOnce == TRUE

\* wg.Wait() returns
WaitDone == wgMain = 0

\* wg.Wait(); return awsInfoData, cwData
MainJoin ==
    /\ mainPc = "spawn"
    /\ spawned = nTriples
    /\ WaitDone
    /\ mainPc' = "joined"
    /\ UNCHANGED <<cfgVars, account, spawned, wgMain, cacheVars, gateVars, aggVars, pc,
                   unitVars, calls>>

\* defer cache.Clear()
MainClear ==
    /\ mainPc = "joined"
    /\ clearCount' = clearCount + 1
    /\ mainPc' = "returned"
    /\ UNCHANGED <<cfgVars, account, spawned, wgMain, refreshCount, gateVars, aggVars, pc,
                   unitVars, calls>>

\* the triple goroutine ends: defer wg.Done()
Finish(t) ==
    /\ pc' = [pc EXCEPT ![t] = "done"]
    /\ wgMain' = wgMain - 1

\* scrapeStaticJob: one goroutine per metric definition, then wg.Wait()
StaticSpawn(t) ==
    /\ workers' = [workers EXCEPT ![t] = [j \in 1..nMetrics[t] |-> "ready"]]
    /\ batchResp' = [batchResp EXCEPT ![t] = [j \in 1..nMetrics[t] |-> NilResp]]
    /\ wg' = [wg EXCEPT ![t] = nMetrics[t]]

StsFailedNever(ok) == FALSE

\* err != nil || result.Account == nil
StsFailed(ok) == ~ok

\* GetCallerIdentityWithContext returns
StsReturn(t) ==
    /\ pc[t] = "sts"
    /\ \E ok \in BOOLEAN :
        /\ account' = [account EXCEPT ![t] = IF ok THEN "ok" ELSE "failed"]
        /\ IF StsFailed(ok)
           THEN /\ Finish(t)
                /\ UNCHANGED <<unitVars>>
           ELSE /\ wgMain' = wgMain
                /\ CASE kind[t] = "D" ->
                           /\ pc' = [pc EXCEPT ![t] = "tagAcquire"]
                           /\ UNCHANGED unitVars
                     [] kind[t] = "S" ->
                           /\ pc' = [pc EXCEPT ![t] = "unitWait"]
                           /\ StaticSpawn(t)
                           /\ UNCHANGED <<resources, metricIdx, getMetricDatas, cw>>
                     [] OTHER ->
                           /\ pc' = [pc EXCEPT ![t] = "catAcquire"]
                           /\ metricIdx' = [metricIdx EXCEPT ![t] = 1]
                           /\ UNCHANGED <<resources, getMetricDatas, wg, workers, cw,
                                          batchResp>>
    /\ UNCHANGED <<cfgVars, mainPc, spawned, cacheVars, gateVars, aggVars, calls>>

\* ------------------------------------- scrapeDiscoveryJobUsingMetricData
TagFreeAlways == TRUE

\* a send on tagSemaphore proceeds only while the channel is not full
TagFree == tagSemaphore < tagCap

CloudwatchFreeAlways == TRUE

\* a send on cloudwatchSemaphore proceeds only while the channel is not full
CloudwatchFree == cloudwatchSemaphore < cloudwatchCap

TagReleasedOnSuccess(err) == IF err THEN tagSemaphore ELSE tagSemaphore - 1

\* <-tagSemaphore right after the gated call, before err is looked at
TagReleased(err) == tagSemaphore - 1

DataReleasedOnData(isNil) ==
    IF isNil THEN cloudwatchSemaphore ELSE cloudwatchSemaphore - 1

\* defer func() { <-cloudwatchSemaphore }(): runs whatever the call returned
DataReleased(isNil) == cloudwatchSemaphore - 1

\* tagSemaphore <- struct{}{} before clientTag.Get
TagAcquire(t) ==
    /\ pc[t] = "tagAcquire"
    /\ TagFree
    /\ tagSemaphore' = tagSemaphore + 1
    /\ held' = [held EXCEPT !.tag[t] = @ + 1]
    /\ pc' = [pc EXCEPT ![t] = "tagGet"]
    /\ calls' = Count(t, "tag")
    /\ UNCHANGED <<cfgVars, account, mainPc, spawned, wgMain, cacheVars, cloudwatchSemaphore,
                   aggVars, unitVars>>

AbandonOnErrOnly(err, n) == err

\* if err != nil { return }; if len(resources) == 0 { return }
Abandon(err, n) == err \/ n = 0

\* clientTag.Get returns; <-tagSemaphore; return on err or on zero resources
TagGetReturn(t) ==
    /\ pc[t] = "tagGet"
    /\ \E err \in BOOLEAN, n \in 0..MaxResources :
        /\ tagSemaphore' = TagReleased(err)
        /\ held' = [held EXCEPT !.tag[t] = @ - (tagSemaphore - tagSemaphore')]
        /\ IF Abandon(err, n)
           THEN /\ Finish(t)
                /\ UNCHANGED <<resources, metricIdx>>
           ELSE /\ resources' = [resources EXCEPT ![t] = n]
                /\ metricIdx' = [metricIdx EXCEPT ![t] = 1]
                /\ pc' = [pc EXCEPT ![t] = "catAcquire"]
                /\ wgMain' = wgMain
    /\ UNCHANGED <<cfgVars, account, mainPc, spawned, cacheVars, cloudwatchSemaphore, aggVars,
                   getMetricDatas, wg, workers, cw, batchResp, calls>>

\* ---- getMetricDataForQueries / getMetricDataForQueriesForCustomNamespace
\* tagSemaphore <- struct{}{} before getFullMetricsList
CatalogAcquire(t) ==
    /\ pc[t] = "catAcquire"
    /\ TagFree
    /\ tagSemaphore' = tagSemaphore + 1
    /\ held' = [held EXCEPT !.tag[t] = @ + 1]
    /\ pc' = [pc EXCEPT ![t] = "catCall"]
    /\ calls' = Count(t, "catalog")
    /\ UNCHANGED <<cfgVars, account, mainPc, spawned, wgMain, cacheVars, cloudwatchSemaphore,
                   aggVars, unitVars>>

\* the position a batch worker is spawned in: the Discovery worker goes
\* straight to clientCloudwatch.getMetricData, the CustomNamespace worker
\* first sends on cloudwatchSemaphore
SpawnedAs(k) == IF k = "D" THEN "call" ELSE "ready"

\* partition, wg.Add(partition) and the loop of go statements
BatchSpawn(t, qs) ==
    LET n == Len(qs)
        starts == WorkerStarts(n, metricsPerQuery)
    IN /\ wg' = [wg EXCEPT ![t] = Partition(n, metricsPerQuery)]
       /\ workers' = [workers EXCEPT ![t] = [i \in starts |-> SpawnedAs(kind[t])]]
       /\ batchResp' = [batchResp EXCEPT ![t] = [i \in starts |-> NilResp]]
       /\ calls' = IF kind[t] = "D"
                   THEN [calls EXCEPT ![t]["data"] = @ + Cardinality(starts)]
                   ELSE calls
       /\ pc' = [pc EXCEPT ![t] = "unitWait"]
       /\ UNCHANGED <<wgMain, mux>>

\* the unit returns an empty query list to its triple goroutine:
\* Discovery fails "len(resources) != 0 && len(metrics) != 0" and ends,
\* CustomNamespace goes on to mux.Lock()
EmptyReturn(t) ==
    /\ IF kind[t] = "D"
       THEN Finish(t)
       ELSE /\ pc' = [pc EXCEPT ![t] = "lock"]
            /\ wgMain' = wgMain
    /\ UNCHANGED <<wg, workers, batchResp, calls, mux>>

\* getFullMetricsList returns; <-tagSemaphore; on err continue, else append the
\* generated queries; after the last metric partition and spawn the workers
CatalogReturn(t) ==
    /\ pc[t] = "catCall"
    /\ \E err \in BOOLEAN, new \in NewIds :
        LET qs == IF err THEN getMetricDatas[t] ELSE getMetricDatas[t] \o new
        IN /\ err => new = <<>>
           /\ tagSemaphore' = TagReleased(err)
           /\ held' = [held EXCEPT !.tag[t] = @ - (tagSemaphore - tagSemaphore')]
           /\ getMetricDatas' = [getMetricDatas EXCEPT ![t] = qs]
           /\ IF metricIdx[t] < nMetrics[t]
              THEN /\ metricIdx' = [metricIdx EXCEPT ![t] = @ + 1]
                   /\ pc' = [pc EXCEPT ![t] = "catAcquire"]
                   /\ UNCHANGED <<wgMain, wg, workers, batchResp, calls, mux>>
              ELSE /\ metricIdx' = metricIdx
                   /\ IF Len(qs) = 0 THEN EmptyReturn(t) ELSE BatchSpawn(t, qs)
    /\ UNCHANGED <<cfgVars, account, mainPc, spawned, cacheVars, cloudwatchSemaphore,
                   awsInfoData, cwData, resources, cw>>

\* ---------------------------------------------------------------- workers
\* cloudwatchSemaphore <- struct{}{} (scrapeStaticJob and
\* scrapeCustomNamespaceJobUsingMetricData workers)
WorkerAcquire(t, i) ==
    /\ pc[t] = "unitWait"
    /\ i \in DOMAIN workers[t]
    /\ workers[t][i] = "ready"
    /\ CloudwatchFree
    /\ cloudwatchSemaphore' = cloudwatchSemaphore + 1
    /\ held' = [held EXCEPT !.data[t][i] = @ + 1]
    /\ workers' = [workers EXCEPT ![t][i] = "call"]
    /\ calls' = Count(t, "data")
    /\ UNCHANGED <<cfgVars, account, mainPc, spawned, wgMain, cacheVars, tagSemaphore, aggVars,
                   pc, resources, metricIdx, getMetricDatas, wg, cw, batchResp>>

BatchOutputWholeList(t, i, resp) ==
    IF resp.nil THEN EmptyBag
    ELSE MergeOutput(t, getMetricDatas[t], 1..Len(getMetricDatas[t]),
                     resp.results, Len(resp.results))

\* what a batch worker appends to cw for the response it received
BatchOutput(t, i, resp) ==
    IF resp.nil THEN EmptyBag
    ELSE MergeOutput(t, getMetricDatas[t],
                     SliceIdx(i, Len(getMetricDatas[t]), metricsPerQuery),
                     resp.results, Len(resp.results))

WorkerDoneOverwrite(t, i, resp, out) ==
    /\ workers' = [workers EXCEPT ![t][i] = "done"]
    /\ batchResp' = [batchResp EXCEPT ![t][i] = resp]
    /\ cw' = [cw EXCEPT ![t] = out]
    /\ wg' = [wg EXCEPT ![t] = @ - 1]

\* the worker's bookkeeping on return: cw = append(cw, output...); wg.Done()
WorkerDone(t, i, resp, out) ==
    /\ workers' = [workers EXCEPT ![t][i] = "done"]
    /\ batchResp' = [batchResp EXCEPT ![t][i] = resp]
    /\ cw' = [cw EXCEPT ![t] = @ (+) out]
    /\ wg' = [wg EXCEPT ![t] = @ - 1]

\* Discovery worker: getMetricData returns, merge, append, wg.Done()
DiscoveryWorkerReturn(t, i) ==
    /\ kind[t] = "D"
    /\ pc[t] = "unitWait"
    /\ i \in DOMAIN workers[t]
    /\ workers[t][i] = "call"
    /\ \E resp \in Responses : WorkerDone(t, i, resp, BatchOutput(t, i, resp))
    /\ UNCHANGED <<cfgVars, account, mainPc, spawned, wgMain, cacheVars, gateVars, aggVars,
                   pc, resources, metricIdx, getMetricDatas, calls>>

\* CustomNamespace worker: getMetricData returns, merge, append, then the
\* deferred <-cloudwatchSemaphore and wg.Done()
CustomWorkerReturn(t, i) ==
    /\ kind[t] = "C"
    /\ pc[t] = "unitWait"
    /\ i \in DOMAIN workers[t]
    /\ workers[t][i] = "call"
    /\ \E resp \in Responses :
          /\ WorkerDone(t, i, resp, BatchOutput(t, i, resp))
          /\ cloudwatchSemaphore' = DataReleased(resp.nil)
    /\ held' = [held EXCEPT
                  !.data[t][i] = @ - (cloudwatchSemaphore - cloudwatchSemaphore')]
    /\ UNCHANGED <<cfgVars, account, mainPc, spawned, wgMain, cacheVars, tagSemaphore, aggVars,
                   pc, resources, metricIdx, getMetricDatas, calls>>

\* the record scrapeStaticJob builds for metric j once Points is set
StaticRecord(t, j) == [triple |-> t, q |-> j, set |-> TRUE, point |-> 0, ts |-> 0]

StaticOutputAlways(t, j, isNil) == SetToBag({StaticRecord(t, j)})

\* if data.Points != nil { cw = append(cw, &data) }
StaticOutput(t, j, isNil) ==
    IF isNil THEN EmptyBag ELSE SetToBag({StaticRecord(t, j)})

\* Static worker: clientCloudwatch.get returns; append when data.Points != nil;
\* then the deferred <-cloudwatchSemaphore and wg.Done()
StaticWorkerReturn(t, j) ==
    /\ kind[t] = "S"
    /\ pc[t] = "unitWait"
    /\ j \in DOMAIN workers[t]
    /\ workers[t][j] = "call"
    /\ \E isNil \in BOOLEAN :
          /\ WorkerDone(t, j, [nil |-> isNil, results |-> <<>>],
                        StaticOutput(t, j, isNil))
          /\ cloudwatchSemaphore' = DataReleased(isNil)
    /\ held' = [held EXCEPT
                  !.data[t][j] = @ - (cloudwatchSemaphore - cloudwatchSemaphore')]
    /\ UNCHANGED <<cfgVars, account, mainPc, spawned, wgMain, cacheVars, tagSemaphore, aggVars,
                   pc, resources, metricIdx, getMetricDatas, calls>>

\* ------------------------------------------------ back in the triple
ContributesWithResources(t) ==
    IF kind[t] = "D" THEN resources[t] # 0 ELSE TRUE

\* the condition under which the triple goroutine appends its contribution
Contributes(t) ==
    IF kind[t] = "D" THEN resources[t] # 0 /\ cw[t] # EmptyBag ELSE TRUE

UnitJoinedAtOnce(t) == TRUE

\* the unit's wg.Wait() returns once its counter is zero
UnitJoined(t) == wg[t] = 0

\* the unit's wg.Wait() returns and the unit returns to the triple goroutine
UnitReturn(t) ==
    /\ pc[t] = "unitWait"
    /\ UnitJoined(t)
    /\ IF Contributes(t)
       THEN /\ pc' = [pc EXCEPT ![t] = "lock"]
            /\ wgMain' = wgMain
       ELSE Finish(t)
    /\ UNCHANGED <<cfgVars, account, mainPc, spawned, cacheVars, gateVars, aggVars, unitVars,
                   calls>>

MuxFreeAlways == TRUE

\* mux.Lock() proceeds only while nobody holds the mutex
MuxFree == mux = 0

\* mux.Lock()
Lock(t) ==
    /\ pc[t] = "lock"
    /\ MuxFree
    /\ mux' = t
    /\ pc' = [pc EXCEPT ![t] = "locked"]
    /\ UNCHANGED <<cfgVars, account, mainPc, spawned, wgMain, cacheVars, gateVars, awsInfoData,
                   cwData, unitVars, calls>>

\* resources... of the unit as records of the aggregate
ResourceBag(t) == SetToBag({[triple |-> t, res |-> r] : r \in 1..resources[t]})

\* the appends under the mutex, mux.Unlock() and the deferred wg.Done()
AppendUnlock(t) ==
    /\ pc[t] = "locked"
    /\ awsInfoData' = IF kind[t] = "D" THEN awsInfoData (+) ResourceBag(t)
                      ELSE awsInfoData
    /\ cwData' = cwData (+) cw[t]
    /\ mux' = 0
    /\ Finish(t)
    /\ UNCHANGED <<cfgVars, account, mainPc, spawned, cacheVars, gateVars, unitVars, calls>>

\* every index a worker of some unit can have
WorkerKeys == 0..(MaxMetrics * (MaxNew + MergeNew))

Next ==
    \/ MainRefresh
    \/ MainSpawn
    \/ MainJoin
    \/ MainClear
    \/ \E t \in T : StsReturn(t)
    \/ \E t \in T : TagAcquire(t)
    \/ \E t \in T : TagGetReturn(t)
    \/ \E t \in T : CatalogAcquire(t)
    \/ \E t \in T : CatalogReturn(t)
    \/ \E t \in T, i \in WorkerKeys : WorkerAcquire(t, i)
    \/ \E t \in T, i \in WorkerKeys : DiscoveryWorkerReturn(t, i)
    \/ \E t \in T, i \in WorkerKeys : CustomWorkerReturn(t, i)
    \/ \E t \in T, j \in 1..MaxMetrics : StaticWorkerReturn(t, j)
    \/ \E t \in T : UnitReturn(t)
    \/ \E t \in T : Lock(t)
    \/ \E t \in T : AppendUnlock(t)

Spec == Init /\ [][Next]_vars

SpecMerge == InitMerge /\ [][Next]_vars

FairSpec == Spec /\ WF_vars(Next)

\* one unit alone with long query lists and every batch size up to MaxM
InitJoin ==
    /\ nTriples = 1
    /\ kind \in [T -> Kinds \cup {"-"}]
    /\ \A t \in T : (t > nTriples) <=> (kind[t] = "-")
    /\ nMetrics \in [T -> 1..MaxMetrics]
    /\ \A t \in T : t > nTriples => nMetrics[t] = 1
    /\ metricsPerQuery \in 1..MaxM
    /\ cloudwatchCap \in 1..MaxCap
    /\ tagCap = 1
    /\ env = [maxId |-> MaxId, foreign |-> 0, maxResults |-> MaxResults,
              maxNew |-> JoinNew]
    /\ part = NoPart
    /\ lenRun = NoLen
    /\ Start

SpecJoin == InitJoin /\ [][Next]_vars

\* ------------------------------------------ the partition loop alone
\* metricDataLength and maxMetricCount drawn from bounded sets
InitPart ==
    /\ nTriples = 0
    /\ kind = [t \in T |-> "-"]
    /\ nMetrics = [t \in T |-> 1]
    /\ metricsPerQuery = 1
    /\ cloudwatchCap = 1
    /\ tagCap = 1
    /\ env = [maxId |-> MaxId, foreign |-> 0, maxResults |-> MaxResults,
              maxNew |-> MaxNew]
    /\ \E n \in 1..MaxN, m \in 1..MaxM :
          part = [n |-> n, m |-> m, i |-> 0, partition |-> 0, slices |-> <<>>]
    /\ lenRun = NoLen
    /\ Start

scrapeVars == <<kind, nTriples, nMetrics, metricsPerQuery, cloudwatchCap, tagCap,
                env, mainPc, spawned, wgMain, refreshCount, clearCount,
                cloudwatchSemaphore, tagSemaphore, mux, awsInfoData, cwData,
                pc, resources, metricIdx, getMetricDatas, wg, workers, cw,
                batchResp, calls, account, held>>

\* partition := int(math.Ceil(...)); wg.Add(partition)
PartAdd ==
    /\ part.partition = 0
    /\ part' = [part EXCEPT !.partition = Partition(part.n, part.m)]
    /\ UNCHANGED <<scrapeVars, lenRun>>

\* one iteration of the for loop: the worker started with i takes
\* getMetricDatas[i:end]
PartLoop ==
    /\ part.partition # 0
    /\ part.i < part.n
    /\ part' = [part EXCEPT
                  !.slices = Append(@, <<part.i, SliceEnd(part.i, part.n, part.m)>>),
                  !.i = @ + part.m]
    /\ UNCHANGED <<scrapeVars, lenRun>>

NextPart == PartAdd \/ PartLoop

SpecPart == InitPart /\ [][NextPart]_vars

\* ---------------------------------------------------------------------
\* getMetricDataInputLength run alone, over every default, job-level
\* length and list of per-metric lengths within the bounds
Lengths == 0..MaxLength

MetricLengths == UNION {[1..n -> Lengths] : n \in 0..MaxMetrics}

InitLen ==
    /\ nTriples = 0
    /\ kind = [t \in T |-> "-"]
    /\ nMetrics = [t \in T |-> 1]
    /\ metricsPerQuery = 1
    /\ cloudwatchCap = 1
    /\ tagCap = 1
    /\ env = [maxId |-> MaxId, foreign |-> 0, maxResults |-> MaxResults,
              maxNew |-> MaxNew]
    /\ part = NoPart
    /\ \E d \in 1..MaxDefault, l \in (-1)..MaxLength, ms \in MetricLengths :
          lenRun = [default |-> d, job |-> l, metrics |-> ms, j |-> 0,
                    length |-> 0, started |-> FALSE, returned |-> FALSE]
    /\ Start

LenBaseLarger(default, jobLength) ==
    IF jobLength > default THEN jobLength ELSE default

\* length := model.DefaultLengthSeconds; if job.Length > 0 { length = job.Length }
LenBase(default, jobLength) ==
    IF jobLength > 0 THEN jobLength ELSE default

LenStart ==
    /\ ~lenRun.started
    /\ lenRun' = [lenRun EXCEPT !.started = TRUE,
                                !.length = LenBase(lenRun.default, lenRun.job)]
    /\ UNCHANGED <<scrapeVars, part>>

\* one iteration of: if metric.Length > length { length = metric.Length }
LenLoop ==
    /\ lenRun.started
    /\ lenRun.j < Len(lenRun.metrics)
    /\ lenRun' = [lenRun EXCEPT
                    !.j = @ + 1,
                    !.length = IF lenRun.metrics[lenRun.j + 1] > @
                               THEN lenRun.metrics[lenRun.j + 1] ELSE @]
    /\ UNCHANGED <<scrapeVars, part>>

\* return length
LenReturn ==
    /\ lenRun.started
    /\ ~lenRun.returned
    /\ lenRun.j = Len(lenRun.metrics)
    /\ lenRun' = [lenRun EXCEPT !.returned = TRUE]
    /\ UNCHANGED <<scrapeVars, part>>

NextLen == LenStart \/ LenLoop \/ LenReturn

SpecLen == InitLen /\ [][NextLen]_vars

\* ================================================================ claims
Configured == 1..nTriples

\* data-fetch calls in flight: workers inside getMetricData or get
DataCallsOf(t) == {i \in DOMAIN workers[t] : workers[t][i] = "call"}
InFlightData == Cardinality({<<t, i>> \in T \X WorkerKeys : i \in DataCallsOf(t)})

\* tag-class calls in flight: triples inside clientTag.Get or getFullMetricsList
InFlightTag == Cardinality({t \in T : pc[t] \in {"tagGet", "catCall"}})

\* C1: the number of data-fetch calls in flight (batched calls of Discovery and
\* CustomNamespace workers plus single calls of Static workers) never exceeds
\* the capacity of cloudwatchSemaphore.
C1_DataGateBounded == InFlightData <= cloudwatchCap

\* C2: the number of resource-lookup calls plus catalog-discovery calls in
\* flight, over all triples, never exceeds the capacity of tagSemaphore.
C2_TagGateBounded == InFlightTag <= tagCap

\* C2 witness: the gate is full with two calls in flight, one of them a
\* resource lookup, while another triple could not have entered
C2_Witness ==
    /\ tagCap = 2
    /\ InFlightTag = 2
    /\ \E t \in T : pc[t] = "tagGet"
    /\ \E t \in T : pc[t] = "catCall"

\* ---------------------------------------------------------------- C3
PartDone == part.partition # 0 /\ part.i >= part.n

\* the query list of the partition run: n distinct queries
PartList == [j \in 1..part.n |-> j]

RECURSIVE ConcatSlices(_, _)
ConcatSlices(list, k) ==
    IF k = 0 THEN <<>>
    ELSE ConcatSlices(list, k - 1)
            \o SubSeq(list, part.slices[k][1] + 1, part.slices[k][2])

\* C3: for N >= 1 queries and batch size M > 0 the workers receive exactly
\* ceil(N/M) slices, contiguous and pairwise non-overlapping, each of length
\* 1..M, whose concatenation in index order is the original query list; the
\* count given to wg.Add and the worker indices the unit uses are the same.
C3_Partitioning ==
    PartDone =>
        LET k == Len(part.slices)
        IN /\ k * part.m >= part.n
           /\ (k - 1) * part.m < part.n
           /\ part.partition = k
           /\ part.slices[1][1] = 0
           /\ part.slices[k][2] = part.n
           /\ \A j \in 1..(k - 1) : part.slices[j][2] = part.slices[j + 1][1]
           /\ \A j \in 1..k :
                 /\ part.slices[j][2] - part.slices[j][1] >= 1
                 /\ part.slices[j][2] - part.slices[j][1] <= part.m
           /\ ConcatSlices(PartList, k) = PartList
           /\ {part.slices[j][1] : j \in 1..k} = WorkerStarts(part.n, part.m)
           /\ \A j \in 1..k :
                 SliceIdx(part.slices[j][1], part.n, part.m)
                    = (part.slices[j][1] + 1)..part.slices[j][2]

\* C3 witness: five queries in batches of two were split into three slices,
\* the last one shorter
C3_Witness ==
    /\ PartDone
    /\ part.n = 5
    /\ part.m = 2
    /\ part.slices = <<<<0, 2>>, <<2, 4>>, <<4, 5>>>>

\* ---------------------------------------------------------------- C4
\* the records of triple t in an aggregate collection
BagOf(bag, t) ==
    [r \in {x \in BagToSet(bag) : x.triple = t} |-> CopiesIn(r, bag)]

Present(bag, t) == \E r \in BagToSet(bag) : r.triple = t

IsBatchUnit(t) == t \in Configured /\ kind[t] \in {"D", "C"}

\* the MetricIDs of the queries of worker i's slice
SliceIds(t, i) ==
    {getMetricDatas[t][k] :
        k \in SliceIdx(i, Len(getMetricDatas[t]), metricsPerQuery)}

\* results of a response whose id some query of worker i's slice has
MatchedResults(t, i, resp) ==
    {r \in 1..Len(resp.results) : resp.results[r].Id \in SliceIds(t, i)}

\* C4: when a batch worker processes a response, every record it adds is the
\* query of its own slice that has the returned id; a returned id absent from
\* the slice adds no record; nothing already merged is removed, and no query
\* list or contribution of another batch or triple changes.
C4_MergeCorrectness ==
    [][\A t \in T, i \in WorkerKeys :
         (/\ IsBatchUnit(t)
          /\ i \in DOMAIN workers[t]
          /\ workers[t][i] = "call"
          /\ workers'[t][i] = "done")
         => LET resp == batchResp'[t][i]
                slice == SliceIdx(i, Len(getMetricDatas[t]), metricsPerQuery)
                all == BagToSet(cw[t]) \cup BagToSet(cw'[t])
                added == {rec \in all : CopiesIn(rec, cw'[t]) > CopiesIn(rec, cw[t])}
            IN /\ \A rec \in all : CopiesIn(rec, cw'[t]) >= CopiesIn(rec, cw[t])
               /\ \A rec \in added :
                     /\ rec.triple = t
                     /\ rec.q \in slice
                     /\ \E r \in 1..Len(resp.results) :
                           resp.results[r].Id = getMetricDatas[t][rec.q]
               /\ BagCardinality(cw'[t]) - BagCardinality(cw[t])
                     = Cardinality(MatchedResults(t, i, resp))
               /\ getMetricDatas' = getMetricDatas
               /\ \A u \in T \ {t} : cw'[u] = cw[u]
               /\ cwData' = cwData
      ]_vars

\* C4 witness: a worker has merged a response holding an id of its own slice,
\* the id of a query of another batch, and an id no query has
C4_Witness ==
    \E t \in T, i \in WorkerKeys :
        /\ IsBatchUnit(t)
        /\ i \in DOMAIN workers[t]
        /\ workers[t][i] = "done"
        /\ ~batchResp[t][i].nil
        /\ \E r \in 1..Len(batchResp[t][i].results) :
              LET id == batchResp[t][i].results[r].Id
              IN /\ id \notin SliceIds(t, i)
                 /\ \E k \in 1..Len(getMetricDatas[t]) : getMetricDatas[t][k] = id
        /\ MatchedResults(t, i, batchResp[t][i]) # {}
        /\ cw[t] # EmptyBag

\* ---------------------------------------------------------------- C5
\* C5: a Discovery triple whose resource discovery failed or returned zero
\* resources issues no catalog-discovery call and no data-fetch call, ever,
\* and contributes no resources and no queries.
C5_DiscoveryAbandonment ==
    \A t \in Configured :
        (/\ kind[t] = "D"
         /\ calls[t].tag = 1
         /\ pc[t] # "tagGet"
         /\ resources[t] = 0)
        => /\ pc[t] = "done"
           /\ calls[t].catalog = 0
           /\ calls[t].data = 0
           /\ cw[t] = EmptyBag
           /\ ~Present(awsInfoData, t)
           /\ ~Present(cwData, t)

\* C5 witness: ScrapeAwsData has returned and a Discovery triple that passed
\* identity resolution had found no resources
C5_Witness ==
    /\ mainPc = "returned"
    /\ \E t \in Configured :
          /\ kind[t] = "D"
          /\ account[t] = "ok"
          /\ calls[t].tag = 1
          /\ resources[t] = 0

\* ---------------------------------------------------------------- C6
\* C6: if every external call returns and scheduling is fair, ScrapeAwsData
\* returns: no state leaves every remaining goroutine blocked on a gate or a
\* join.
C6_Termination == <>(mainPc = "returned")

\* C6 witness: ScrapeAwsData returned after two units ran batch workers
C6_Witness ==
    /\ mainPc = "returned"
    /\ nTriples = 2
    /\ \A t \in Configured : workers[t] # <<>> /\ account[t] = "ok"

\* ---------------------------------------------------------------- C7
Running(t) == pc[t] \notin {"unspawned", "done"}

\* C7: cache.Refresh happens once, before any triple is spawned; cache.Clear
\* happens once, after every configured triple has finished; neither happens
\* while a triple is running; when ScrapeAwsData has returned each happened
\* exactly once.
C7_CacheLifecycle ==
    /\ refreshCount <= 1
    /\ clearCount <= 1
    /\ spawned > 0 => refreshCount = 1
    /\ \A t \in T : Running(t) => refreshCount = 1 /\ clearCount = 0
    /\ clearCount = 1 => /\ spawned = nTriples
                         /\ \A t \in Configured : pc[t] = "done"
    /\ mainPc = "returned" => refreshCount = 1 /\ clearCount = 1

\* C7 witness: returned after every triple failed identity resolution
C7_Witness ==
    /\ mainPc = "returned"
    /\ nTriples = 2
    /\ \A t \in Configured : account[t] = "failed"
    /\ clearCount = 1

\* ---------------------------------------------------------------- C8
\* what the aggregates hold of triple u once it has ended
Contribution(u) == IF Contributes(u) THEN cw[u] ELSE EmptyBag

\* C8: a triple whose identity resolution failed appends nothing, acquires no
\* gate and issues no further external call; and what the returned
\* collections hold of every other triple is that triple's own contribution,
\* whatever the failed triple did.
C8_FailureIsolation ==
    /\ \A t \in Configured :
          account[t] = "failed"
          => /\ pc[t] = "done"
             /\ calls[t] = [NoCalls EXCEPT !.sts = 1]
             /\ workers[t] = <<>>
             /\ cw[t] = EmptyBag
             /\ ~Present(awsInfoData, t)
             /\ ~Present(cwData, t)
    /\ mainPc = "returned"
       => \A u \in Configured :
             account[u] = "ok"
             => /\ BagOf(cwData, u) = Contribution(u)
                /\ BagOf(awsInfoData, u)
                      = IF kind[u] = "D" /\ Contributes(u)
                        THEN ResourceBag(u) ELSE EmptyBag

\* C8 witness: returned; one triple failed identity resolution, the other
\* contributed queries
C8_Witness ==
    /\ mainPc = "returned"
    /\ \E t, u \in Configured :
          /\ account[t] = "failed"
          /\ account[u] = "ok"
          /\ Present(cwData, u)

\* ---------------------------------------------------------------- C9
\* every record a batch unit can hold
RecordSpace(t) ==
    BagToSet(cw[t]) \cup
    {MergedRecord(t, k, r) : k \in 1..Len(getMetricDatas[t]), r \in Results}

\* how often the batches that received a non-null response matched rec
ExpectedCopies(t, rec) ==
    Cardinality(UNION {
        {<<i, r>> : r \in {x \in 1..Len(batchResp[t][i].results) :
            LET res == batchResp[t][i].results[x]
                slice == SliceIdx(i, Len(getMetricDatas[t]), metricsPerQuery)
            IN /\ workers[t][i] = "done"
               /\ ~batchResp[t][i].nil
               /\ rec.q \in slice
               /\ getMetricDatas[t][rec.q] = res.Id
               /\ \A j \in slice : j < rec.q => getMetricDatas[t][j] # res.Id
               /\ rec = MergedRecord(t, rec.q, res)}}
        : i \in DOMAIN workers[t]})

\* C9: the contribution of a Discovery or CustomNamespace unit holds exactly
\* the matched records of the batches that received a non-null response: a
\* batch with a null response adds nothing and takes nothing away.
C9_PartialBatchFailure ==
    \A t \in T :
        IsBatchUnit(t)
        => \A rec \in RecordSpace(t) : CopiesIn(rec, cw[t]) = ExpectedCopies(t, rec)

\* C9 witness: the unit has joined two workers, one got a null response, the
\* other a response whose records are the contribution
C9_Witness ==
    \E t \in T :
        /\ IsBatchUnit(t)
        /\ pc[t] \in {"lock", "locked", "done"}
        /\ Cardinality(DOMAIN workers[t]) = 2
        /\ \E i, j \in DOMAIN workers[t] :
              /\ batchResp[t][i].nil
              /\ ~batchResp[t][j].nil
        /\ cw[t] # EmptyBag

\* --------------------------------------------------------------- C10
\* C10: for a Discovery triple that has ended, its resources are in the
\* resource collection iff its queries are in the query collection, and that
\* is so exactly when both its resource list and its merged query list are
\* non-empty; until it ends neither collection holds anything of it.
C10_AllOrNothing ==
    \A t \in Configured :
        kind[t] = "D"
        => /\ Present(awsInfoData, t) <=> Present(cwData, t)
           /\ pc[t] # "done" => ~Present(cwData, t)
           /\ pc[t] = "done"
              => /\ Present(cwData, t) <=> (resources[t] # 0 /\ cw[t] # EmptyBag)
                 /\ Present(cwData, t)
                    => /\ BagOf(cwData, t) = cw[t]
                       /\ BagOf(awsInfoData, t) = ResourceBag(t)

\* C10 witness: resources were found, every batch got a null response, and
\* the ended triple left neither resources nor queries
C10_Witness ==
    \E t \in Configured :
        /\ kind[t] = "D"
        /\ pc[t] = "done"
        /\ resources[t] # 0
        /\ workers[t] # <<>>
        /\ \A i \in DOMAIN workers[t] : batchResp[t][i].nil
        /\ ~Present(awsInfoData, t)
        /\ ~Present(cwData, t)

\* --------------------------------------------------------------- C11
IsStatic(t) == t \in Configured /\ kind[t] = "S"

\* single-metric fetches (clientCloudwatch.get) in flight, over all triples
StaticInFlight ==
    {<<t, j>> \in T \X (1..MaxMetrics) :
        IsStatic(t) /\ j \in DOMAIN workers[t] /\ workers[t][j] = "call"}

\* C11: a Static unit spawns one worker per metric definition, all at once,
\* and with a data gate of capacity 1 no two single-metric fetches are in
\* flight together, within one static triple or across static triples.
C11_StaticExclusion ==
    /\ \A t \in T :
          IsStatic(t) /\ account[t] = "ok"
          => DOMAIN workers[t] = 1..nMetrics[t]
    /\ cloudwatchCap = 1 => Cardinality(StaticInFlight) <= 1

\* C11 witness: capacity 1, two static metrics launched, one fetch in
\* flight while the other worker waits at the gate
C11_Witness ==
    /\ cloudwatchCap = 1
    /\ \E t \in T :
          /\ IsStatic(t)
          /\ nMetrics[t] = 2
          /\ \E j, k \in DOMAIN workers[t] :
                workers[t][j] = "call" /\ workers[t][k] = "ready"

\* --------------------------------------------------------------- C12
\* C12: the two aggregate collections change only by an append made by the
\* triple that holds the orchestrator mutex, before the join; at most one
\* triple is inside the critical section; nothing is removed; and the join
\* happens only after every configured triple has finished.
C12_AggregateDiscipline ==
    /\ [](/\ Cardinality({t \in T : pc[t] = "locked"}) <= 1
          /\ \A t \in T : pc[t] = "locked" <=> mux = t
          /\ mainPc \in {"joined", "returned"}
             => \A t \in Configured : pc[t] = "done")
    /\ [][(awsInfoData' # awsInfoData \/ cwData' # cwData)
          => /\ mainPc = "spawn"
             /\ mainPc' = "spawn"
             /\ mux # 0
             /\ pc[mux] = "locked"
             /\ mux' = 0
             /\ \A r \in BagToSet(awsInfoData) :
                   CopiesIn(r, awsInfoData') >= CopiesIn(r, awsInfoData)
             /\ \A r \in BagToSet(cwData) :
                   CopiesIn(r, cwData') >= CopiesIn(r, cwData)
             /\ \A r \in BagToSet(cwData') :
                   CopiesIn(r, cwData') > CopiesIn(r, cwData) => r.triple = mux
         ]_vars

\* C12 witness: one triple appends under the mutex while another waits for
\* it and the collection already holds an earlier contribution
C12_Witness ==
    \E t, u \in T :
        /\ pc[t] = "locked"
        /\ pc[u] = "lock"

\* --------------------------------------------------------------- C13
MaxOf(S) == CHOOSE x \in S : \A y \in S : y <= x

MetricLengthSet == {lenRun.metrics[i] : i \in 1..Len(lenRun.metrics)}

\* C13 as stated: the returned length is the maximum of the job-level
\* length, every per-metric length and the default, hence never below the
\* default
C13_MaxWithDefault ==
    lenRun.returned
    => /\ lenRun.length =
            MaxOf({lenRun.job, lenRun.default} \cup MetricLengthSet)
       /\ lenRun.length >= lenRun.default

\* C13 amended: the returned length is the maximum of the per-metric
\* lengths and a base, where the base is the job-level length when that is
\* positive (even when it is below the default) and the default otherwise
C13_WindowLength ==
    lenRun.returned
    => lenRun.length =
          MaxOf({IF lenRun.job > 0 THEN lenRun.job ELSE lenRun.default}
                \cup MetricLengthSet)

\* C13 witness: a positive job-level length below the default, no larger
\* per-metric length, and the function has returned the job-level length
C13_Witness ==
    /\ lenRun.returned
    /\ lenRun.job > 0
    /\ lenRun.job < lenRun.default
    /\ Len(lenRun.metrics) = MaxMetrics
    /\ lenRun.length = lenRun.job

\* --------------------------------------------------------------- C14
IsCustom(t) == t \in Configured /\ kind[t] = "C"

\* C14: in a CustomNamespace unit the queries of one batch (the slice one
\* worker sends) have pairwise different MetricIDs, whatever rand.Int()
\* returned
C14_UniqueIds ==
    \A t \in T :
        IsCustom(t)
        => \A i \in DOMAIN workers[t] :
              \A j, k \in SliceIdx(i, Len(getMetricDatas[t]), metricsPerQuery) :
                  j # k => getMetricDatas[t][j] # getMetricDatas[t][k]

\* --------------------------------------------------------------- C16
\* the least number of batches of at most m queries that hold n queries
Batches(n, m) == CHOOSE c \in 0..n : c * m >= n /\ (c = 0 \/ (c - 1) * m < n)

NotDone(t) == {i \in DOMAIN workers[t] : workers[t][i] # "done"}

\* C16: for a Discovery or CustomNamespace unit with N >= 1 queries, the
\* workers spawned are ceil(N/M) many, the join counter is the number of
\* workers that have not finished, and once the unit has returned every
\* worker has finished and the contribution no longer changes.
C16_UnitJoin ==
    /\ [](\A t \in T :
             (IsBatchUnit(t) /\ workers[t] # <<>>)
             => /\ Len(getMetricDatas[t]) >= 1
                /\ Cardinality(DOMAIN workers[t])
                      = Batches(Len(getMetricDatas[t]), metricsPerQuery)
                /\ wg[t] = Cardinality(NotDone(t))
                /\ pc[t] # "unitWait" => NotDone(t) = {})
    /\ [][\A t \in T :
             (IsBatchUnit(t) /\ pc[t] # "unitWait" /\ workers[t] # <<>>)
             => cw'[t] = cw[t] /\ workers'[t] = workers[t]]_vars

\* C16 witness: a unit of five or more queries in batches of two has
\* returned after joining its three workers, the last batch being short
C16_Witness ==
    \E t \in T :
        /\ IsBatchUnit(t)
        /\ metricsPerQuery = 2
        /\ Len(getMetricDatas[t]) = 5
        /\ Cardinality(DOMAIN workers[t]) = 3
        /\ pc[t] \in {"lock", "locked", "done"}

\* --------------------------------------------------------------- C17
\* record rec is what result res of worker i's response gives its query
SlotOf(t, i, rec, res) ==
    /\ rec.triple = t
    /\ rec.q \in SliceIdx(i, Len(getMetricDatas[t]), metricsPerQuery)
    /\ getMetricDatas[t][rec.q] = res.Id
    /\ IF Len(res.Values) # 0
       THEN /\ rec.set
            /\ rec.point = Head(res.Values)
            /\ rec.ts = Head(res.Timestamps)
       ELSE /\ ~rec.set
            /\ rec.point = 0
            /\ rec.ts = 0

\* workers of t that returned with a non-null response
Responded(t) ==
    {i \in DOMAIN workers[t] : workers[t][i] = "done" /\ ~batchResp[t][i].nil}

\* C17: every record of the contribution is the query matched by a returned
\* result, with its slot set to the first value and first timestamp of that
\* result when the values are non-empty and left empty otherwise; every
\* matched result has such a record; a query of a slice for which no result
\* was returned has no slot set.
C17_ResultSlot ==
    \A t \in T :
        IsBatchUnit(t)
        => /\ \A rec \in BagToSet(cw[t]) :
                 \E i \in Responded(t) :
                    \E r \in 1..Len(batchResp[t][i].results) :
                       SlotOf(t, i, rec, batchResp[t][i].results[r])
           /\ \A i \in Responded(t) :
                 \A r \in MatchedResults(t, i, batchResp[t][i]) :
                    \E rec \in BagToSet(cw[t]) :
                       SlotOf(t, i, rec, batchResp[t][i].results[r])
           /\ \A i \in DOMAIN workers[t] :
                 \A k \in SliceIdx(i, Len(getMetricDatas[t]), metricsPerQuery) :
                    (workers[t][i] = "done"
                     /\ \A r \in 1..Len(batchResp[t][i].results) :
                           batchResp[t][i].results[r].Id # getMetricDatas[t][k])
                    => \A rec \in BagToSet(cw[t]) : rec.q # k

\* C17 witness: a joined unit whose response gave one query a first value
\* and first timestamp out of two, and another query an empty value list
C17_Witness ==
    \E t \in T :
        /\ IsBatchUnit(t)
        /\ pc[t] \notin {"unitWait", "catCall", "catAcquire"}
        /\ \E a, b \in BagToSet(cw[t]) :
              /\ a.q # b.q
              /\ a.set /\ a.point = 2 /\ a.ts = 20
              /\ ~b.set

\* --------------------------------------------------------------- C18
\* number of records the contribution of t holds for query k
RecordsOf(t, k) ==
    BagCardinality([rec \in {x \in BagToSet(cw[t]) : x.q = k} |-> cw[t][rec]])

\* C18: the contribution of a Discovery or CustomNamespace unit holds at
\* most one record per generated query, whatever the responses were
C18_AtMostOnce ==
    \A t \in T :
        IsBatchUnit(t)
        => \A k \in 1..Len(getMetricDatas[t]) : RecordsOf(t, k) <= 1

\* --------------------------------------------------------------- C15
RECURSIVE SumOver(_, _)
SumOver(f, S) ==
    IF S = {} THEN 0
    ELSE LET x == CHOOSE y \in S : TRUE
         IN f[x] + SumOver(f, S \ {x})

\* permits of the data gate held by the workers of triple t
HeldData(t) == SumOver(held.data[t], WorkerKeys)

\* worker i of triple t is between its acquisition of the data gate and its
\* deferred release
InGatedFetch(t, i) ==
    /\ kind[t] \in {"S", "C"}
    /\ i \in DOMAIN workers[t]
    /\ workers[t][i] = "call"

\* C15: each gate counts exactly the permits its acquirers still hold; a
\* goroutine holds a permit only between its acquisition and the return of
\* the gated call, whatever that call returned (never a second release, never
\* a missing one); a triple that has signalled completion holds nothing, and
\* when ScrapeAwsData has returned both gates are empty.
C15_GateRelease ==
    /\ tagSemaphore = SumOver(held.tag, T)
    /\ cloudwatchSemaphore = SumOver([t \in T |-> HeldData(t)], T)
    /\ \A t \in T :
          /\ held.tag[t] = (IF pc[t] \in {"tagGet", "catCall"} THEN 1 ELSE 0)
          /\ \A i \in WorkerKeys :
                held.data[t][i] = (IF InGatedFetch(t, i) THEN 1 ELSE 0)
          /\ pc[t] \in {"lock", "locked", "done"}
             => held.tag[t] = 0 /\ HeldData(t) = 0
    /\ mainPc = "returned" => tagSemaphore = 0 /\ cloudwatchSemaphore = 0

\* C15 witness: ScrapeAwsData has returned after a gated data fetch that
\* returned null and a gated catalog call, all permits given back
C15_Witness ==
    /\ mainPc = "returned"
    /\ \E t \in T, i \in WorkerKeys :
          /\ kind[t] \in {"S", "C"}
          /\ i \in DOMAIN workers[t]
          /\ workers[t][i] = "done"
          /\ batchResp[t][i].nil
    /\ \E t \in T : calls[t].catalog > 0

\* --------------------------------------------------------------- C19
\* the static metrics of t whose fetch has returned a non-null point list
StaticFetched(t) ==
    {j \in DOMAIN workers[t] : workers[t][j] = "done" /\ ~batchResp[t][j].nil}

\* C19: a Static unit has one query (and one worker) per metric definition;
\* its contribution holds, once each, exactly the queries whose fetch returned
\* a non-null point list; and the unit never touches the tag gate.
C19_StaticContribution ==
    \A t \in T :
        IsStatic(t)
        => /\ workers[t] # <<>> => DOMAIN workers[t] = 1..nMetrics[t]
           /\ \A j \in 1..nMetrics[t] :
                 CopiesIn(StaticRecord(t, j), cw[t])
                    = (IF j \in StaticFetched(t) THEN 1 ELSE 0)
           /\ BagToSet(cw[t]) = {StaticRecord(t, j) : j \in StaticFetched(t)}
           /\ pc[t] \notin {"tagAcquire", "tagGet", "catAcquire", "catCall"}
           /\ held.tag[t] = 0
           /\ calls[t].tag = 0
           /\ calls[t].catalog = 0

\* C19 witness: a Static unit of two metrics has joined its workers, one
\* fetch returned null and the other a point list, and the contribution is
\* the one query that was fetched
C19_Witness ==
    \E t \in T :
        /\ IsStatic(t)
        /\ pc[t] \in {"lock", "locked", "done"}
        /\ nMetrics[t] = 2
        /\ Cardinality(StaticFetched(t)) = 1
        /\ BagCardinality(cw[t]) = 1

\* --------------------------------------------------------------- C20
\* C20: every goroutine (a triple's unit or one of its workers) holds at most
\* one permit over the two gates; one that is waiting to acquire a gate holds
\* none; and neither gate is needed to give back a permit of the other, so a
\* waiter proceeds as soon as its own gate has room and a holder can always
\* finish its call, whatever the state of the other gate.
C20_NoHoldAndWait ==
    \A t \in T :
        /\ held.tag[t] \in {0, 1}
        /\ pc[t] \in {"tagAcquire", "catAcquire"}
           => /\ held.tag[t] = 0
              /\ HeldData(t) = 0
              /\ tagSemaphore < tagCap
                 => ENABLED (TagAcquire(t) \/ CatalogAcquire(t))
        /\ held.tag[t] = 1
           => /\ HeldData(t) = 0
              /\ ENABLED (TagGetReturn(t) \/ CatalogReturn(t))
        /\ \A i \in WorkerKeys :
              /\ held.data[t][i] \in {0, 1}
              /\ (i \in DOMAIN workers[t] /\ workers[t][i] = "ready")
                 => /\ held.data[t][i] = 0
                    /\ cloudwatchSemaphore < cloudwatchCap
                       => ENABLED WorkerAcquire(t, i)
              /\ held.data[t][i] = 1
                 => /\ held.tag[t] = 0
                    /\ ENABLED (CustomWorkerReturn(t, i)
                                \/ StaticWorkerReturn(t, i))

\* C20 witness: both gates are exhausted, the tag gate by one unit's catalog
\* call and the data gate by a worker of another unit, each holding one permit
C20_Witness ==
    \E t, u \in T, i \in WorkerKeys :
        /\ t # u
        /\ pc[t] = "catCall"
        /\ held.tag[t] = 1
        /\ tagSemaphore = tagCap
        /\ held.data[u][i] = 1
        /\ cloudwatchSemaphore = cloudwatchCap

====
